---- MODULE Spec2Model ----
(***************************************************************************)
(* Request orchestration and view-state synchronisation of the console in  *)
(* src/front/app/page.tsx (component Home): seven async handlers over a     *)
(* remote backend, a transient message with setTimeout expiry, three        *)
(* snapshots (genres, profile, wallet) and the form fields.                 *)
(*                                                                         *)
(* Every step of the event loop is one action: a user event (field edit,   *)
(* tab click, button click/submit runs the handler up to its first await),  *)
(* the continuation of a handler after its await (resolved or thrown), a    *)
(* timer callback, or the backend serving a request.                        *)
(***************************************************************************)
EXTENDS Integers, Sequences, FiniteSets, TLC

(* ------------------------------------------------------------------ *)
(* Bounds of the model                                                 *)
(* ------------------------------------------------------------------ *)

\* number of user events (edits, tab clicks, button clicks) in one session
MaxEvents == 4

\* values the operator types into the fields
UserIds == {"user:1234", "user:7"}
GenreIdTexts == {"ROCK"}
GenreNameTexts == {"Rock"}
ListenerTexts == {<<"5">>}
UsernameTexts == {"ann"}
EmailTexts == {"a@x.com"}
AmountTexts == {<<"2", "0">>}

(* ------------------------------------------------------------------ *)
(* Values                                                              *)
(* ------------------------------------------------------------------ *)

\* A JSON value is written as a sequence of records: an array as the sequence of
\* its objects, a single object as a one-record sequence, null as the empty one.
Null == <<>>
Some(x) == <<x>>

\* the body of a response with an error status
ErrorBody == <<[error |-> "rejected"]>>

\* useState("user:1234")
DefaultUserId == "user:1234"

\* the <option value=...> of the subscription select
LevelTexts == {<<"0">>, <<"1">>, <<"2">>}

\* the tabs array
Tabs == {"genres", "users", "wallet"}

ReadKinds == {"GET /genres", "GET /users/:id", "GET /users/:id/wallet"}
WriteKinds == {"POST /genres", "POST /users", "PUT /users/:id",
               "POST /users/:id/wallet/transfer"}

(* ------------------------------------------------------------------ *)
(* parseInt and JSON.stringify of a number                             *)
(* ------------------------------------------------------------------ *)

DigitChars == <<"0", "1", "2", "3", "4", "5", "6", "7", "8", "9">>

IsDigit(c) == \E k \in 1..10 : DigitChars[k] = c

DigitVal(c) == (CHOOSE k \in 1..10 : DigitChars[k] = c) - 1

RECURSIVE SkipSpaces(_)
SkipSpaces(s) ==
    IF s # <<>> /\ Head(s) = " " THEN SkipSpaces(Tail(s)) ELSE s

RECURSIVE ParseDigits(_, _, _)
\* reads the leading decimal digits of s; seen = a digit was read, acc = their value
ParseDigits(s, seen, acc) ==
    IF s # <<>> /\ IsDigit(Head(s))
    THEN ParseDigits(Tail(s), TRUE, 10 * acc + DigitVal(Head(s)))
    ELSE [nan |-> ~seen, n |-> acc]

\* parseInt(text): optional blanks, optional sign, leading digits; NaN without a digit
parseInt(text) ==
    LET s == SkipSpaces(text)
        signed == s # <<>> /\ Head(s) \in {"-", "+"}
        r == ParseDigits(IF signed THEN Tail(s) ELSE s, FALSE, 0)
    IN  IF signed /\ Head(s) = "-" /\ ~r.nan THEN [nan |-> FALSE, n |-> 0 - r.n] ELSE r

\* JSON.stringify of a number: NaN is written as null
JsonNumber(p) == IF p.nan THEN Null ELSE Some(p.n)

(* ------------------------------------------------------------------ *)
(* State                                                               *)
(* ------------------------------------------------------------------ *)

VARIABLES
    activeTab, genres, profile, wallet, message,      \* useState, lines 26-30
    mounted,       \* Home is mounted: no render of it has thrown
    genreId, genreName, genreListeners,               \* genre form
    userId, username, email, subLevel,                \* user form
    transferAmount,                                   \* transfer form
    timers,        \* number of setTimeout callbacks not yet run
    inflight,      \* fetches awaiting completion, in the order they were issued
    beGenres, beUsers, beWallets,                     \* the backend's store
    beEpoch,       \* history: the number of changes of the backend's store
    done,          \* history: the handler continuation that ran last
    notified,      \* history: the text of the last showMessage call
    lastOk,        \* history: per domain, the read that resolved last
    events         \* history: user events so far

view == <<activeTab, genres, profile, wallet, message>>
forms == <<genreId, genreName, genreListeners, userId, username, email, subLevel,
           transferAmount>>
backend == <<beGenres, beUsers, beWallets>>
history == <<done, notified, lastOk, events, beEpoch>>
vars == <<view, mounted, forms, timers, inflight, backend, history>>

snapshots == <<genres, profile, wallet>>

Domains == {"genres", "profile", "wallet"}

\* the view model a read belongs to
DomainOf(kind) ==
    CASE kind = "GET /genres" -> "genres"
      [] kind = "GET /users/:id" -> "profile"
      [] kind = "GET /users/:id/wallet" -> "wallet"
      [] OTHER -> "none"

snapshotOf(d) ==
    CASE d = "genres" -> genres
      [] d = "profile" -> profile
      [] d = "wallet" -> wallet

\* done.turn alternates, so that done changes whenever a continuation runs
NoDone == [turn |-> 0, kind |-> "", outcome |-> "", status |-> "", uid |-> "",
           via |-> "", parent |-> Null, payload |-> Null, overtakenBy |-> Null,
           epoch |-> 0, again |-> FALSE]

\* the profile of a user the backend holds when the session starts
KnownUser(u) == Some([id |-> u, username |-> "bob", email |-> "b@x.com",
                      subscription_level |-> 2])

Init ==
    /\ activeTab = "genres"
    /\ genres = <<>>
    /\ profile = Null
    /\ wallet = Null
    /\ message = ""
    /\ mounted = TRUE
    /\ genreId = ""
    /\ genreName = ""
    /\ genreListeners = <<>>
    /\ userId = DefaultUserId
    /\ username = ""
    /\ email = ""
    /\ subLevel = <<"0">>
    /\ transferAmount = <<>>
    /\ timers = 0
    /\ inflight = <<>>
    /\ beGenres = <<[id |-> "JAZZ", name |-> "Jazz", listeners |-> 7]>>
    /\ beUsers = [u \in UserIds |-> IF u = DefaultUserId THEN Null ELSE KnownUser(u)]
    /\ beWallets = [u \in UserIds |-> [coin_balance |-> 100, credit_balance |-> 0]]
    /\ done = NoDone
    /\ notified = ""
    /\ lastOk = [d \in Domains |-> Null]
    /\ events = 0
    /\ beEpoch = 0

\* the uid of a request whose URL holds no user id
NoKey == ""

\* a fetch(...) just issued. uid is the userId in its URL (the userId of the render
\* whose handler issued it), via the handler that called it. History: parent is
\* the status and body of the request whose continuation issued it (Null for a
\* user's call); overtakenBy is the payload of a read of the same view model that
\* was issued later and has resolved already, in a one-element sequence (Null
\* when there is none); epoch is the backend's beEpoch when it answered.
NewRequest(kind, uid, body, via, parent) ==
    [kind |-> kind, uid |-> uid, body |-> body, via |-> via, parent |-> parent,
     stage |-> "sent", status |-> "none", resp |-> Null, overtakenBy |-> Null,
     epoch |-> 0]

(* ------------------------------------------------------------------ *)
(* User events that only change local state                            *)
(* ------------------------------------------------------------------ *)

\* {genres.map(...)} in the genres tab needs an array. A JSON object is written
\* here as a one-record sequence, and the only object a list read receives is
\* the body of an error response.
IsArray(v) == v # ErrorBody

\* the render of Home with this tab and this genres value throws a TypeError
RenderThrows(tab, g) == tab = "genres" /\ ~IsArray(g)

\* React renders Home with the new state; an error thrown by the render is caught
\* nowhere in the component and unmounts it
Rendered == mounted' = ~RenderThrows(activeTab', genres')

\* one more user event, on the mounted page; the rest of the history is untouched
UserEvent ==
    /\ mounted
    /\ events < MaxEvents
    /\ events' = events + 1

QuietEvent ==
    /\ UserEvent
    /\ UNCHANGED <<mounted, timers, inflight, backend, done, notified, lastOk, beEpoch>>

\* the read handler of the view model a tab shows
ReadOfTab(t) ==
    CASE t = "genres" -> "GET /genres"
      [] t = "users" -> "GET /users/:id"
      [] t = "wallet" -> "GET /users/:id/wallet"

\* the tab buttons as they would be if opening a tab also loaded its view model
setActiveTab_loading(t) ==
    /\ t # activeTab
    /\ activeTab' = t
    /\ UserEvent
    /\ inflight' = Append(inflight,
                          NewRequest(ReadOfTab(t), IF t = "genres" THEN NoKey ELSE userId,
                                     Null, "user", Null))
    /\ UNCHANGED <<genres, profile, wallet, message, forms>>
    /\ UNCHANGED <<timers, backend, done, notified, lastOk, beEpoch>>
    /\ Rendered

\* onClick={() => setActiveTab(tab.id)}; a click on the active tab changes nothing
setActiveTab(t) ==
    /\ t # activeTab
    /\ activeTab' = t
    /\ UserEvent
    /\ UNCHANGED <<genres, profile, wallet, message, forms>>
    /\ UNCHANGED <<timers, inflight, backend, done, notified, lastOk, beEpoch>>
    /\ Rendered

setGenreId(v) ==
    /\ activeTab = "genres" /\ v # genreId
    /\ genreId' = v
    /\ QuietEvent
    /\ UNCHANGED <<view, genreName, genreListeners, userId, username, email, subLevel,
                   transferAmount>>

setGenreName(v) ==
    /\ activeTab = "genres" /\ v # genreName
    /\ genreName' = v
    /\ QuietEvent
    /\ UNCHANGED <<view, genreId, genreListeners, userId, username, email, subLevel,
                   transferAmount>>

setGenreListeners(v) ==
    /\ activeTab = "genres" /\ v # genreListeners
    /\ genreListeners' = v
    /\ QuietEvent
    /\ UNCHANGED <<view, genreId, genreName, userId, username, email, subLevel,
                   transferAmount>>

\* the User ID input as it would be if a new id dropped the snapshots of the old one
setUserId_clearing(v) ==
    /\ activeTab \in {"users", "wallet"} /\ v # userId
    /\ userId' = v
    /\ profile' = Null
    /\ wallet' = Null
    /\ QuietEvent
    /\ UNCHANGED <<activeTab, genres, message, genreId, genreName, genreListeners,
                   username, email, subLevel, transferAmount>>

\* the User ID input is rendered on the users tab and on the wallet tab
setUserId(v) ==
    /\ activeTab \in {"users", "wallet"} /\ v # userId
    /\ userId' = v
    /\ QuietEvent
    /\ UNCHANGED <<view, genreId, genreName, genreListeners, username, email, subLevel,
                   transferAmount>>

setUsername(v) ==
    /\ activeTab = "users" /\ v # username
    /\ username' = v
    /\ QuietEvent
    /\ UNCHANGED <<view, genreId, genreName, genreListeners, userId, email, subLevel,
                   transferAmount>>

setEmail(v) ==
    /\ activeTab = "users" /\ v # email
    /\ email' = v
    /\ QuietEvent
    /\ UNCHANGED <<view, genreId, genreName, genreListeners, userId, username, subLevel,
                   transferAmount>>

setSubLevel(v) ==
    /\ activeTab = "users" /\ v # subLevel
    /\ subLevel' = v
    /\ QuietEvent
    /\ UNCHANGED <<view, genreId, genreName, genreListeners, userId, username, email,
                   transferAmount>>

setTransferAmount(v) ==
    /\ activeTab = "wallet" /\ v # transferAmount
    /\ transferAmount' = v
    /\ QuietEvent
    /\ UNCHANGED <<view, genreId, genreName, genreListeners, userId, username, email,
                   subLevel>>

(* ------------------------------------------------------------------ *)
(* Notification                                                        *)
(* ------------------------------------------------------------------ *)

\* showMessage as it would be if it armed a timeout for the error texts only
showMessage_unscheduled(msg) ==
    /\ message' = msg
    /\ timers' = IF msg \in {"Genres loaded!", "Profile loaded!", "Wallet loaded!"}
                 THEN timers ELSE timers + 1
    /\ notified' = msg

\* showMessage as it would be if it cleared the pending timeout and armed a new one
\* only when none had been pending
showMessage_rearmingOnce(msg) ==
    /\ message' = msg
    /\ timers' = IF timers = 0 THEN 1 ELSE 0
    /\ notified' = msg

\* showMessage(msg): setMessage(msg); setTimeout(() => setMessage(""), 3000).
\* The timeout is not kept and never cleared: one more callback is pending.
showMessage(msg) ==
    /\ message' = msg
    /\ timers' = timers + 1
    /\ notified' = msg

\* the callback of a setTimeout runs: () => setMessage(""). All delays are equal, so
\* the callbacks run in the order of their showMessage calls.
messageTimeout ==
    /\ mounted
    /\ timers > 0
    /\ message' = ""
    /\ timers' = timers - 1
    /\ UNCHANGED <<activeTab, genres, profile, wallet, mounted, forms, inflight, backend,
                   history>>

(* ------------------------------------------------------------------ *)
(* Requests                                                            *)
(* ------------------------------------------------------------------ *)

Remove(s, i) == SubSeq(s, 1, i - 1) \o SubSeq(s, i + 1, Len(s))

\* the continuation of r repeats the one before it: both are accepted reads of the
\* same URL, answered from the same state of the backend's store
Repeats(prev, r, outcome) ==
    /\ prev.kind = r.kind /\ r.kind \in ReadKinds
    /\ prev.outcome = "resolved" /\ outcome = "resolved"
    /\ prev.status = "ok" /\ r.status = "ok"
    /\ prev.uid = r.uid
    /\ prev.epoch = r.epoch

DoneOf(r, outcome) ==
    [turn |-> 1 - done.turn, kind |-> r.kind, outcome |-> outcome, status |-> r.status,
     uid |-> r.uid, via |-> r.via, parent |-> r.parent, payload |-> r.resp,
     overtakenBy |-> r.overtakenBy, epoch |-> r.epoch,
     again |-> Repeats(done, r, outcome)]

\* a button click or form submit: the handler runs up to its await fetch(...)
Call(kind, uid, body) ==
    /\ UserEvent
    /\ inflight' = Append(inflight, NewRequest(kind, uid, body, "user", Null))
    /\ UNCHANGED <<view, mounted, forms, timers, backend, done, notified, lastOk, beEpoch>>

\* the continuation of a read handler after its awaits: request i leaves; the
\* reads of the same view model issued before it are overtaken by it
ReadResolved(i) ==
    LET r == inflight[i]
        marked == [k \in DOMAIN inflight |->
                      IF k < i /\ inflight[k].kind = r.kind
                      THEN [inflight[k] EXCEPT !.overtakenBy = Some(r.resp)]
                      ELSE inflight[k]]
    IN  /\ inflight' = Remove(marked, i)
        /\ done' = DoneOf(r, "resolved")
        /\ lastOk' = [lastOk EXCEPT ![DomainOf(r.kind)] =
                         Some([payload |-> r.resp, overtakenBy |-> r.overtakenBy])]
        /\ UNCHANGED <<events, beEpoch>>

\* the continuation of a handler ends without issuing a request
Ends(i, outcome) ==
    /\ inflight' = Remove(inflight, i)
    /\ done' = DoneOf(inflight[i], outcome)
    /\ UNCHANGED <<mounted, events, lastOk, beEpoch>>

\* the continuation of a mutating handler calls a read handler of its own render
FollowUp(i, kind, via) ==
    /\ inflight' = Append(Remove(inflight, i),
                          NewRequest(kind, inflight[i].uid, Null, via,
                                     Some([status |-> inflight[i].status,
                                           body |-> inflight[i].body])))
    /\ done' = DoneOf(inflight[i], "resolved")
    /\ UNCHANGED <<mounted, events, lastOk, beEpoch>>

\* the awaited fetch of request i resolved: a response came back, whatever its status
Resolves(i, kind) ==
    /\ mounted
    /\ i \in DOMAIN inflight
    /\ inflight[i].kind = kind
    /\ inflight[i].stage = "replied"

\* the awaited fetch (or res.json()) of request i threw: the request or its response
\* was lost, or the body was not JSON
Throws(i, kind) ==
    /\ mounted
    /\ i \in DOMAIN inflight
    /\ inflight[i].kind = kind

(* ------------------------------------------------------------------ *)
(* Genres                                                              *)
(* ------------------------------------------------------------------ *)

fetchGenres_call ==
    /\ activeTab = "genres"
    /\ Call("GET /genres", NoKey, Null)

\* fetchGenres as it would be if it merged the response into the held list
fetchGenres_resolved_merging(i) ==
    /\ Resolves(i, "GET /genres")
    /\ genres' = genres \o inflight[i].resp
    /\ showMessage("Genres loaded!")
    /\ ReadResolved(i)
    /\ UNCHANGED <<activeTab, profile, wallet, forms, backend>>
    /\ Rendered

fetchGenres_resolved(i) ==
    /\ Resolves(i, "GET /genres")
    /\ genres' = inflight[i].resp
    /\ showMessage("Genres loaded!")
    /\ ReadResolved(i)
    /\ UNCHANGED <<activeTab, profile, wallet, forms, backend>>
    /\ Rendered

fetchGenres_thrown(i) ==
    /\ Throws(i, "GET /genres")
    /\ showMessage("Error loading genres")
    /\ Ends(i, "thrown")
    /\ UNCHANGED <<activeTab, genres, profile, wallet, forms, backend>>

\* onSubmit of the genre form: the three inputs are required
createGenre_call ==
    /\ activeTab = "genres"
    /\ genreId # "" /\ genreName # "" /\ genreListeners # <<>>
    /\ Call("POST /genres", NoKey,
            Some([id |-> genreId, name |-> genreName,
                  listeners |-> JsonNumber(parseInt(genreListeners))]))

\* createGenre as it would be with an optimistic update of the list
createGenre_resolved_optimistic(i) ==
    /\ Resolves(i, "POST /genres")
    /\ genres' = genres \o inflight[i].resp
    /\ showMessage("Genre created!")
    /\ genreId' = ""
    /\ genreName' = ""
    /\ genreListeners' = <<>>
    /\ FollowUp(i, "GET /genres", "createGenre")
    /\ UNCHANGED <<activeTab, profile, wallet, userId, username, email, subLevel,
                   transferAmount, backend>>

\* createGenre as it would be if it treated an error status as a failure
createGenre_resolved_checkingStatus(i) ==
    /\ Resolves(i, "POST /genres")
    /\ IF inflight[i].status = "ok"
       THEN /\ showMessage("Genre created!")
            /\ genreId' = ""
            /\ genreName' = ""
            /\ genreListeners' = <<>>
            /\ FollowUp(i, "GET /genres", "createGenre")
       ELSE /\ showMessage("Error creating genre")
            /\ Ends(i, "resolved")
            /\ UNCHANGED <<genreId, genreName, genreListeners>>
    /\ UNCHANGED <<activeTab, genres, profile, wallet, userId, username, email, subLevel,
                   transferAmount, backend>>

createGenre_resolved(i) ==
    /\ Resolves(i, "POST /genres")
    /\ showMessage("Genre created!")
    /\ genreId' = ""
    /\ genreName' = ""
    /\ genreListeners' = <<>>
    /\ FollowUp(i, "GET /genres", "createGenre")
    /\ UNCHANGED <<activeTab, genres, profile, wallet, userId, username, email, subLevel,
                   transferAmount, backend>>

\* createGenre as it would be if its catch branch reset the form
createGenre_thrown_clearing(i) ==
    /\ Throws(i, "POST /genres")
    /\ showMessage("Error creating genre")
    /\ genreId' = ""
    /\ genreName' = ""
    /\ genreListeners' = <<>>
    /\ Ends(i, "thrown")
    /\ UNCHANGED <<activeTab, genres, profile, wallet, userId, username, email, subLevel,
                   transferAmount, backend>>

createGenre_thrown(i) ==
    /\ Throws(i, "POST /genres")
    /\ showMessage("Error creating genre")
    /\ Ends(i, "thrown")
    /\ UNCHANGED <<activeTab, genres, profile, wallet, forms, backend>>

(* ------------------------------------------------------------------ *)
(* Users                                                               *)
(* ------------------------------------------------------------------ *)

userBody ==
    Some([id |-> userId, username |-> username, email |-> email,
          subscription_level |-> JsonNumber(parseInt(subLevel))])

fetchProfile_call ==
    /\ activeTab = "users"
    /\ Call("GET /users/:id", userId, Null)

\* fetchProfile as it would be if loading the profile on display closed its panel
fetchProfile_resolved_toggling(i) ==
    /\ Resolves(i, "GET /users/:id")
    /\ profile' = IF profile = inflight[i].resp THEN Null ELSE inflight[i].resp
    /\ showMessage("Profile loaded!")
    /\ ReadResolved(i)
    /\ UNCHANGED <<activeTab, genres, wallet, forms, backend>>
    /\ Rendered

\* fetchProfile as it would be if it stayed silent on success
fetchProfile_resolved_silent(i) ==
    /\ Resolves(i, "GET /users/:id")
    /\ profile' = inflight[i].resp
    /\ ReadResolved(i)
    /\ UNCHANGED <<activeTab, genres, wallet, message, timers, notified, forms, backend>>
    /\ Rendered

fetchProfile_resolved(i) ==
    /\ Resolves(i, "GET /users/:id")
    /\ profile' = inflight[i].resp
    /\ showMessage("Profile loaded!")
    /\ ReadResolved(i)
    /\ UNCHANGED <<activeTab, genres, wallet, forms, backend>>
    /\ Rendered

fetchProfile_thrown(i) ==
    /\ Throws(i, "GET /users/:id")
    /\ showMessage("Error loading profile")
    /\ Ends(i, "thrown")
    /\ UNCHANGED <<activeTab, genres, profile, wallet, forms, backend>>

\* onSubmit of the user form: username and email are required
createUser_call ==
    /\ activeTab = "users"
    /\ username # "" /\ email # ""
    /\ Call("POST /users", userId, userBody)

createUser_resolved(i) ==
    /\ Resolves(i, "POST /users")
    /\ showMessage("User created!")
    /\ FollowUp(i, "GET /users/:id", "createUser")
    /\ UNCHANGED <<activeTab, genres, profile, wallet, forms, backend>>

createUser_thrown(i) ==
    /\ Throws(i, "POST /users")
    /\ showMessage("Error creating user")
    /\ Ends(i, "thrown")
    /\ UNCHANGED <<activeTab, genres, profile, wallet, forms, backend>>

\* onClick of a type="button": no form validation runs
updateUser_call ==
    /\ activeTab = "users"
    /\ Call("PUT /users/:id", userId, userBody)

\* updateUser as it would be with an optimistic update of the profile on display
updateUser_resolved_optimistic(i) ==
    /\ Resolves(i, "PUT /users/:id")
    /\ LET b == inflight[i].body[1]
       IN  profile' = Some([id |-> b.id, username |-> b.username, email |-> b.email,
                            subscription_level |->
                                IF b.subscription_level = Null THEN 0
                                ELSE b.subscription_level[1]])
    /\ showMessage("User updated!")
    /\ FollowUp(i, "GET /users/:id", "updateUser")
    /\ UNCHANGED <<activeTab, genres, wallet, forms, backend>>

updateUser_resolved(i) ==
    /\ Resolves(i, "PUT /users/:id")
    /\ showMessage("User updated!")
    /\ FollowUp(i, "GET /users/:id", "updateUser")
    /\ UNCHANGED <<activeTab, genres, profile, wallet, forms, backend>>

updateUser_thrown(i) ==
    /\ Throws(i, "PUT /users/:id")
    /\ showMessage("Error updating user")
    /\ Ends(i, "thrown")
    /\ UNCHANGED <<activeTab, genres, profile, wallet, forms, backend>>

(* ------------------------------------------------------------------ *)
(* Wallet                                                              *)
(* ------------------------------------------------------------------ *)

\* fetchWallet as it would be if it kept the userId of the first render
fetchWallet_call_firstRender ==
    /\ activeTab = "wallet"
    /\ Call("GET /users/:id/wallet", DefaultUserId, Null)

fetchWallet_call ==
    /\ activeTab = "wallet"
    /\ Call("GET /users/:id/wallet", userId, Null)

\* fetchWallet as it would be if it dropped a response overtaken by a later read
fetchWallet_resolved_fenced(i) ==
    /\ Resolves(i, "GET /users/:id/wallet")
    /\ wallet' = IF inflight[i].overtakenBy = Null THEN inflight[i].resp ELSE wallet
    /\ showMessage("Wallet loaded!")
    /\ ReadResolved(i)
    /\ UNCHANGED <<activeTab, genres, profile, forms, backend>>
    /\ Rendered

\* fetchWallet as it would be if a loaded wallet reset the transfer form
fetchWallet_resolved_resetting(i) ==
    /\ Resolves(i, "GET /users/:id/wallet")
    /\ wallet' = inflight[i].resp
    /\ transferAmount' = <<>>
    /\ showMessage("Wallet loaded!")
    /\ ReadResolved(i)
    /\ UNCHANGED <<activeTab, genres, profile, genreId, genreName, genreListeners,
                   userId, username, email, subLevel, backend>>
    /\ Rendered

fetchWallet_resolved(i) ==
    /\ Resolves(i, "GET /users/:id/wallet")
    /\ wallet' = inflight[i].resp
    /\ showMessage("Wallet loaded!")
    /\ ReadResolved(i)
    /\ UNCHANGED <<activeTab, genres, profile, forms, backend>>
    /\ Rendered

\* fetchWallet as it would be if its catch branch cleared the balances
fetchWallet_thrown_clearing(i) ==
    /\ Throws(i, "GET /users/:id/wallet")
    /\ wallet' = Null
    /\ showMessage("Error loading wallet")
    /\ Ends(i, "thrown")
    /\ UNCHANGED <<activeTab, genres, profile, forms, backend>>

fetchWallet_thrown(i) ==
    /\ Throws(i, "GET /users/:id/wallet")
    /\ showMessage("Error loading wallet")
    /\ Ends(i, "thrown")
    /\ UNCHANGED <<activeTab, genres, profile, wallet, forms, backend>>

\* transferCredits as it would be if a new submission aborted the transfers in flight
transferCredits_call_aborting ==
    /\ activeTab = "wallet"
    /\ transferAmount # <<>>
    /\ UserEvent
    /\ inflight' = Append(SelectSeq(inflight,
                                    LAMBDA r : r.kind # "POST /users/:id/wallet/transfer"),
                          NewRequest("POST /users/:id/wallet/transfer", userId,
                                     Some([amount |-> JsonNumber(parseInt(transferAmount))]),
                                     "user", Null))
    /\ UNCHANGED <<view, mounted, forms, timers, backend, done, notified, lastOk, beEpoch>>

\* onSubmit of the transfer form: the amount is required
transferCredits_call ==
    /\ activeTab = "wallet"
    /\ transferAmount # <<>>
    /\ Call("POST /users/:id/wallet/transfer", userId,
            Some([amount |-> JsonNumber(parseInt(transferAmount))]))

\* transferCredits as it would be if it moved the amount in the held balances itself
transferCredits_resolved_computing(i) ==
    /\ Resolves(i, "POST /users/:id/wallet/transfer")
    /\ showMessage("Transfer complete!")
    /\ transferAmount' = <<>>
    /\ wallet' = IF wallet = Null \/ wallet = ErrorBody
                    \/ inflight[i].body[1].amount = Null
                 THEN wallet
                 ELSE Some([coin_balance |-> wallet[1].coin_balance
                                              - inflight[i].body[1].amount[1],
                            credit_balance |-> wallet[1].credit_balance
                                              + inflight[i].body[1].amount[1]])
    /\ FollowUp(i, "GET /users/:id/wallet", "transferCredits")
    /\ UNCHANGED <<activeTab, genres, profile, genreId, genreName, genreListeners,
                   userId, username, email, subLevel, backend>>

transferCredits_resolved(i) ==
    /\ Resolves(i, "POST /users/:id/wallet/transfer")
    /\ showMessage("Transfer complete!")
    /\ transferAmount' = <<>>
    /\ FollowUp(i, "GET /users/:id/wallet", "transferCredits")
    /\ UNCHANGED <<activeTab, genres, profile, wallet, genreId, genreName, genreListeners,
                   userId, username, email, subLevel, backend>>

transferCredits_thrown(i) ==
    /\ Throws(i, "POST /users/:id/wallet/transfer")
    /\ showMessage("Error transferring credits")
    /\ Ends(i, "thrown")
    /\ UNCHANGED <<activeTab, genres, profile, wallet, forms, backend>>

(* ------------------------------------------------------------------ *)
(* The backend (section 6 of the specification; not part of page.tsx)  *)
(* ------------------------------------------------------------------ *)

HasGenre(id) == \E k \in DOMAIN beGenres : beGenres[k].id = id

Reply(status, resp, g, u, w) ==
    [status |-> status, resp |-> resp, genres |-> g, users |-> u, wallets |-> w]

Refuse == Reply("rejected", ErrorBody, beGenres, beUsers, beWallets)

\* GET /genres
ServeGenreList(r) == Reply("ok", beGenres, beGenres, beUsers, beWallets)

\* POST /genres {id, name, listeners}
ServeGenreCreate(r) ==
    LET b == r.body[1]
    IN  IF b.listeners # Null /\ ~HasGenre(b.id)
        THEN Reply("ok", Some([id |-> b.id, name |-> b.name, listeners |-> b.listeners[1]]),
                   Append(beGenres, [id |-> b.id, name |-> b.name,
                                     listeners |-> b.listeners[1]]),
                   beUsers, beWallets)
        ELSE Refuse

\* GET /users/{id}
ServeUserRead(r) ==
    IF beUsers[r.uid] # Null
    THEN Reply("ok", beUsers[r.uid], beGenres, beUsers, beWallets)
    ELSE Refuse

StoredUser(b) ==
    Some([id |-> b.id, username |-> b.username, email |-> b.email,
          subscription_level |-> b.subscription_level[1]])

\* POST /users {id, username, email, subscription_level}: creates a new user
ServeUserCreate(r) ==
    LET b == r.body[1]
    IN  IF b.subscription_level # Null /\ beUsers[b.id] = Null
        THEN Reply("ok", StoredUser(b), beGenres, [beUsers EXCEPT ![b.id] = StoredUser(b)],
                   beWallets)
        ELSE Refuse

\* PUT /users/{id} {id, username, email, subscription_level}: replaces an existing user
ServeUserReplace(r) ==
    LET b == r.body[1]
    IN  IF b.subscription_level # Null /\ beUsers[r.uid] # Null
        THEN Reply("ok", StoredUser(b), beGenres, [beUsers EXCEPT ![r.uid] = StoredUser(b)],
                   beWallets)
        ELSE Refuse

\* GET /users/{id}/wallet
ServeWalletRead(r) == Reply("ok", Some(beWallets[r.uid]), beGenres, beUsers, beWallets)

\* POST /users/{id}/wallet/transfer {amount}: converts coins to credits
ServeTransfer(r) ==
    LET b == r.body[1]
        w == beWallets[r.uid]
    IN  IF b.amount # Null /\ b.amount[1] > 0 /\ b.amount[1] <= w.coin_balance
        THEN Reply("ok", Null, beGenres, beUsers,
                   [beWallets EXCEPT ![r.uid] =
                       [coin_balance |-> w.coin_balance - b.amount[1],
                        credit_balance |-> w.credit_balance + b.amount[1]]])
        ELSE Refuse

Serve(r) ==
    CASE r.kind = "GET /genres" -> ServeGenreList(r)
      [] r.kind = "POST /genres" -> ServeGenreCreate(r)
      [] r.kind = "GET /users/:id" -> ServeUserRead(r)
      [] r.kind = "POST /users" -> ServeUserCreate(r)
      [] r.kind = "PUT /users/:id" -> ServeUserReplace(r)
      [] r.kind = "GET /users/:id/wallet" -> ServeWalletRead(r)
      [] r.kind = "POST /users/:id/wallet/transfer" -> ServeTransfer(r)

Replied(i, reply) ==
    /\ beGenres' = reply.genres
    /\ beUsers' = reply.users
    /\ beWallets' = reply.wallets
    /\ beEpoch' = IF backend' = backend THEN beEpoch ELSE beEpoch + 1
    /\ inflight' = [inflight EXCEPT ![i] =
                       [@ EXCEPT !.stage = "replied", !.status = reply.status,
                                 !.resp = reply.resp, !.epoch = beEpoch']]
    /\ UNCHANGED <<view, mounted, forms, timers, done, notified, lastOk, events>>

\* the backend handles request i and sends its response
BackendServes(i) ==
    /\ i \in DOMAIN inflight
    /\ inflight[i].stage = "sent"
    /\ Replied(i, Serve(inflight[i]))

\* the backend fails on request i (a server error): error status, nothing stored
BackendFails(i) ==
    /\ i \in DOMAIN inflight
    /\ inflight[i].stage = "sent"
    /\ Replied(i, Refuse)

(* ------------------------------------------------------------------ *)
(* Specification                                                       *)
(* ------------------------------------------------------------------ *)

Next ==
    \/ \E t \in Tabs : setActiveTab(t)
    \/ \E v \in GenreIdTexts \cup {""} : setGenreId(v)
    \/ \E v \in GenreNameTexts \cup {""} : setGenreName(v)
    \/ \E v \in ListenerTexts \cup {<<>>} : setGenreListeners(v)
    \/ \E v \in UserIds : setUserId(v)
    \/ \E v \in UsernameTexts \cup {""} : setUsername(v)
    \/ \E v \in EmailTexts \cup {""} : setEmail(v)
    \/ \E v \in LevelTexts : setSubLevel(v)
    \/ \E v \in AmountTexts \cup {<<>>} : setTransferAmount(v)
    \/ fetchGenres_call
    \/ createGenre_call
    \/ fetchProfile_call
    \/ createUser_call
    \/ updateUser_call
    \/ fetchWallet_call
    \/ transferCredits_call
    \/ \E i \in DOMAIN inflight : fetchGenres_resolved(i)
    \/ \E i \in DOMAIN inflight : fetchGenres_thrown(i)
    \/ \E i \in DOMAIN inflight : createGenre_resolved(i)
    \/ \E i \in DOMAIN inflight : createGenre_thrown(i)
    \/ \E i \in DOMAIN inflight : fetchProfile_resolved(i)
    \/ \E i \in DOMAIN inflight : fetchProfile_thrown(i)
    \/ \E i \in DOMAIN inflight : createUser_resolved(i)
    \/ \E i \in DOMAIN inflight : createUser_thrown(i)
    \/ \E i \in DOMAIN inflight : updateUser_resolved(i)
    \/ \E i \in DOMAIN inflight : updateUser_thrown(i)
    \/ \E i \in DOMAIN inflight : fetchWallet_resolved(i)
    \/ \E i \in DOMAIN inflight : fetchWallet_thrown(i)
    \/ \E i \in DOMAIN inflight : transferCredits_resolved(i)
    \/ \E i \in DOMAIN inflight : transferCredits_thrown(i)
    \/ \E i \in DOMAIN inflight : BackendServes(i)
    \/ \E i \in DOMAIN inflight : BackendFails(i)
    \/ messageTimeout

Spec == Init /\ [][Next]_vars

\* the event loop runs the callback of every setTimeout whose delay has elapsed
LiveSpec == Spec /\ WF_vars(messageTimeout)

(* ------------------------------------------------------------------ *)
(* Properties                                                          *)
(* ------------------------------------------------------------------ *)

\* a handler continuation runs in this step
Continues == done' # done

ContinuesAs(kinds, outcome) ==
    /\ Continues
    /\ done'.kind \in kinds
    /\ done'.outcome = outcome

\* the requests a step adds to those in flight
Added == Len(inflight') - (Len(inflight) - IF Continues THEN 1 ELSE 0)

LoadedText(kind) ==
    CASE kind = "GET /genres" -> "Genres loaded!"
      [] kind = "GET /users/:id" -> "Profile loaded!"
      [] kind = "GET /users/:id/wallet" -> "Wallet loaded!"

ReadErrorText(kind) ==
    CASE kind = "GET /genres" -> "Error loading genres"
      [] kind = "GET /users/:id" -> "Error loading profile"
      [] kind = "GET /users/:id/wallet" -> "Error loading wallet"

WriteErrorText(kind) ==
    CASE kind = "POST /genres" -> "Error creating genre"
      [] kind = "POST /users" -> "Error creating user"
      [] kind = "PUT /users/:id" -> "Error updating user"
      [] kind = "POST /users/:id/wallet/transfer" -> "Error transferring credits"

(* C1: from a showMessage(m) call until the callback of that same call runs,
   the message is m unless a later showMessage replaced it. The callbacks run
   in the order of their calls, so while any callback is pending the one of the
   latest call is, and the message must be the text of the latest call. *)
C1_MessageShownUntilOwnTimer == timers > 0 => message = notified

(* C2: in every reachable state each snapshot is its initial empty value or
   the payload of the read of its domain that resolved last. *)
C2_SnapshotIsLastRead ==
    \A d \in Domains :
        \/ snapshotOf(d) = Null
        \/ lastOk[d] # Null /\ snapshotOf(d) = lastOk[d][1].payload

C2_Witness ==
    /\ genres # <<>> /\ genres = lastOk["genres"][1].payload
    /\ wallet # Null /\ wallet = lastOk["wallet"][1].payload
    /\ profile = Null

(* C3: when the request of a read handler throws, every snapshot is the same
   after the continuation as before it and the message is that domain's error
   text. *)
C3_FailedReadKeepsSnapshot ==
    [][ContinuesAs(ReadKinds, "thrown") =>
          /\ snapshots' = snapshots
          /\ message' = ReadErrorText(done'.kind)
          /\ message' # LoadedText(done'.kind)]_vars

C3_Witness ==
    /\ done.kind = "GET /users/:id/wallet"
    /\ done.outcome = "thrown"
    /\ wallet # Null
    /\ message = "Error loading wallet"

(* C4: a read that resolves after a later-issued read of the same view model
   has resolved is not detected or dropped: its payload becomes the snapshot. *)
C4_LastCompletionWins ==
    [][\A d \in Domains :
          (/\ ContinuesAs(ReadKinds, "resolved")
           /\ DomainOf(done'.kind) = d
           /\ done'.overtakenBy # Null)
          => snapshotOf(d)' = done'.payload]_vars

C4_Witness ==
    \E d \in {"profile", "wallet"} :
        /\ lastOk[d] # Null
        /\ lastOk[d][1].overtakenBy # Null
        /\ lastOk[d][1].overtakenBy[1] # lastOk[d][1].payload
        /\ ErrorBody \notin {lastOk[d][1].payload, lastOk[d][1].overtakenBy[1]}
        /\ snapshotOf(d) = lastOk[d][1].payload

(* C5: a profile or wallet read that the user invokes is keyed by the value the
   Active Identifier has at the invocation, whatever edits came before. *)
C5_ReadKeyedByCurrentId ==
    [][(/\ ~Continues
        /\ Len(inflight') = Len(inflight) + 1
        /\ inflight'[Len(inflight')].kind \in {"GET /users/:id", "GET /users/:id/wallet"})
       => inflight'[Len(inflight')].uid = userId]_vars

C5_Witness ==
    \E i \in DOMAIN inflight :
        /\ inflight[i].kind = "GET /users/:id/wallet"
        /\ inflight[i].via = "user"
        /\ userId # DefaultUserId
        /\ inflight[i].uid = userId

\* the follow-up read of an accepted createUser resolves in this step with the
\* profile that was created
CreatedProfileArrives ==
    /\ ContinuesAs({"GET /users/:id"}, "resolved")
    /\ done'.via = "createUser"
    /\ done'.parent[1].status = "ok"
    /\ done'.status = "ok"
    /\ done'.payload = StoredUser(done'.parent[1].body[1])
    /\ done'.payload[1].id = done'.uid
    /\ profile' = done'.payload

(* C6, as claimed: the state in which the profile snapshot has become the
   profile created by an accepted createUser shows "User created!". *)
C6_CreatedProfileShowsUserCreated ==
    [][CreatedProfileArrives => message' = "User created!"]_vars

(* C6, amended: createUser's continuation notifies "User created!" and issues
   the follow-up read; the state in which the profile snapshot has become the
   created profile shows the read's own text, "Profile loaded!". *)
C6_CreatedProfileShowsProfileLoaded ==
    [][/\ ContinuesAs({"POST /users"}, "resolved") =>
            /\ message' = "User created!"
            /\ Added = 1
            /\ inflight'[Len(inflight')].kind = "GET /users/:id"
            /\ profile' = profile
       /\ CreatedProfileArrives => message' = "Profile loaded!"]_vars

C6_Witness ==
    /\ done.kind = "GET /users/:id"
    /\ done.outcome = "resolved"
    /\ done.via = "createUser"
    /\ done.parent[1].status = "ok"
    /\ done.status = "ok"
    /\ profile = Some([id |-> DefaultUserId, username |-> "ann", email |-> "a@x.com",
                       subscription_level |-> 0])
    /\ message = "Profile loaded!"

(* C7: when transfer's request resolves, the amount field becomes empty,
   "Transfer complete!" is notified, one wallet read is issued and the held
   balances are not touched; when that read resolves the wallet snapshot is
   exactly its payload. *)
C7_TransferThenRefresh ==
    [][/\ ContinuesAs({"POST /users/:id/wallet/transfer"}, "resolved") =>
            /\ transferAmount' = <<>>
            /\ message' = "Transfer complete!"
            /\ Added = 1
            /\ inflight'[Len(inflight')].kind = "GET /users/:id/wallet"
            /\ inflight'[Len(inflight')].stage = "sent"
            /\ wallet' = wallet
       /\ (ContinuesAs({"GET /users/:id/wallet"}, "resolved")
           /\ done'.via = "transferCredits") =>
            wallet' = done'.payload]_vars

C7_Witness ==
    /\ done.kind = "GET /users/:id/wallet"
    /\ done.outcome = "resolved"
    /\ done.via = "transferCredits"
    /\ done.parent[1].status = "ok"
    /\ wallet = Some([coin_balance |-> 80, credit_balance |-> 20])
    /\ transferAmount = <<>>

(* C8: when the request of a mutating handler throws, the handler notifies its
   own error text, issues no request, and leaves every snapshot and every form
   field unchanged. *)
C8_FailedWriteChangesNothing ==
    [][ContinuesAs(WriteKinds, "thrown") =>
          /\ message' = WriteErrorText(done'.kind)
          /\ Added = 0
          /\ snapshots' = snapshots
          /\ forms' = forms]_vars

C8_Witness ==
    /\ done.kind = "POST /genres"
    /\ done.outcome = "thrown"
    /\ genreId # "" /\ genreName # "" /\ genreListeners # <<>>
    /\ message = "Error creating genre"
    /\ inflight = <<>>

\* the list reads in flight that createGenre issued
GenreRefreshes(s) ==
    Cardinality({k \in DOMAIN s : s[k].kind = "GET /genres" /\ s[k].via = "createGenre"})

(* C9: every createGenre whose POST resolves, whatever the status of the
   response, empties the three genre fields, notifies "Genre created!" and
   issues exactly one list read; such a read is issued in no other step, so
   never before its POST has completed. *)
C9_CreateGenreThenOneRefresh ==
    [][/\ ContinuesAs({"POST /genres"}, "resolved") =>
            /\ genreId' = "" /\ genreName' = "" /\ genreListeners' = <<>>
            /\ message' = "Genre created!"
            /\ Added = 1
            /\ GenreRefreshes(inflight') = GenreRefreshes(inflight) + 1
            /\ inflight'[Len(inflight')].stage = "sent"
       /\ GenreRefreshes(inflight') > GenreRefreshes(inflight) =>
            ContinuesAs({"POST /genres"}, "resolved")]_vars

C9_Witness ==
    /\ done.kind = "POST /genres"
    /\ done.outcome = "resolved"
    /\ done.status = "rejected"
    /\ genreId = "" /\ genreName = "" /\ genreListeners = <<>>
    /\ message = "Genre created!"
    /\ GenreRefreshes(inflight) = 1

(* C10: after a list read resolves, the displayed sequence is exactly the
   sequence of its response, entry by entry in the response's order, and holds
   nothing else. *)
C10_GenresReplacedWholesale ==
    [][ContinuesAs({"GET /genres"}, "resolved") =>
          /\ Len(genres') = Len(done'.payload)
          /\ \A k \in DOMAIN genres' : genres'[k] = done'.payload[k]]_vars

C10_Witness ==
    /\ done.kind = "GET /genres"
    /\ done.outcome = "resolved"
    /\ done.overtakenBy # Null
    /\ done.overtakenBy[1] # <<>>
    /\ genres = done.payload
    /\ genres # <<>>
    /\ \A k \in DOMAIN genres : \A j \in DOMAIN done.overtakenBy[1] :
           genres[k] # done.overtakenBy[1][j]

(* C11: every run of a handler ends in a notification, whether its request
   resolved or threw, and no failure of a request ends the session: after every
   step Home is still mounted (no error escaped the handlers' catch blocks). *)
C11_ErrorsEndInNotification ==
    [][/\ Continues =>
            /\ notified' # ""
            /\ message' = notified'
            /\ timers' = timers + 1
       /\ mounted']_vars

(* C12: the tab router starts in "genres" and is always in one of the three
   tabs; the active tab changes only in a step that is a user's tab click (one
   user event, no handler continuation, no timer callback), and that step
   leaves every snapshot, every form field with the Active Identifier, the
   message, the pending timers and the requests in flight as they were. *)
C12_TabRouter ==
    /\ activeTab = "genres"
    /\ [](activeTab \in Tabs)
    /\ [][activeTab' # activeTab =>
            /\ events' = events + 1
            /\ ~Continues
            /\ snapshots' = snapshots
            /\ forms' = forms
            /\ message' = message
            /\ timers' = timers
            /\ inflight' = inflight]_vars

C12_Witness ==
    /\ activeTab = "users"
    /\ mounted
    /\ genres # <<>>
    /\ genreId # ""
    /\ message = "Genres loaded!"
    /\ inflight # <<>>

\* the toast is on screen: {message && <div>...} in the mounted page
Shown == mounted /\ message # ""

(* C13: once no further showMessage call is made (a session makes finitely
   many), the timer callbacks that are still pending run, and from then on no
   message is shown: no non-empty message stays on screen forever. *)
C13_MessageEventuallyCleared == <>[]~Shown

C13_Witness ==
    /\ mounted
    /\ notified # ""
    /\ message = ""
    /\ timers = 0
    /\ inflight = <<>>

(* C14: when two profile reads complete one after the other, both accepted,
   both keyed by the same identifier and both answered from the same state of
   the backend's store, the profile snapshot after the second is the snapshot
   after the first. *)
C14_LoadProfileIdempotent ==
    [][(/\ ContinuesAs({"GET /users/:id"}, "resolved")
        /\ Repeats(done, done', "resolved"))
       => /\ profile = done.payload
          /\ profile' = profile]_vars

C14_Witness ==
    /\ done.kind = "GET /users/:id"
    /\ done.outcome = "resolved"
    /\ done.via = "user"
    /\ done.again
    /\ userId = done.uid
    /\ profile = KnownUser(userId)

\* the requests whose URL holds the user id
KeyedKinds == (ReadKinds \cup WriteKinds) \ {"GET /genres", "POST /genres"}

(* C15: every request a profile or wallet handler issues, the follow-up read of
   createUser, updateUser and transferCredits included, is keyed by the value
   the Active Identifier has in the step that issues it. *)
C15_RequestKeyedByCurrentId ==
    [][(/\ Added = 1
        /\ inflight'[Len(inflight')].kind \in KeyedKinds)
       => inflight'[Len(inflight')].uid = userId]_vars

\* the read whose completion writes the snapshot of a domain
ReadOf(d) ==
    CASE d = "genres" -> "GET /genres"
      [] d = "profile" -> "GET /users/:id"
      [] d = "wallet" -> "GET /users/:id/wallet"

(* C16: the snapshot of a domain changes only in a step in which a read of that
   domain resolves; no other step (a form edit, a tab click, a timer, the
   continuation of a mutating handler, a thrown read, a read of another domain)
   writes it. *)
C16_NoOptimisticUpdates ==
    [][\A d \in Domains :
          snapshotOf(d)' # snapshotOf(d) => ContinuesAs({ReadOf(d)}, "resolved")]_vars

C16_Witness ==
    /\ done.kind = "POST /users/:id/wallet/transfer"
    /\ done.outcome = "resolved"
    /\ done.status = "ok"
    /\ wallet = Some([coin_balance |-> 100, credit_balance |-> 0])
    /\ beWallets[done.uid] = [coin_balance |-> 80, credit_balance |-> 20]

\* a and b are the same fetch call, whatever has been answered to it since
SameCall(a, b) ==
    /\ a.kind = b.kind /\ a.uid = b.uid /\ a.body = b.body
    /\ a.via = b.via /\ a.parent = b.parent

\* every request of s is still in t, at its place
Kept(s, t) ==
    /\ Len(t) >= Len(s)
    /\ \A k \in DOMAIN s : SameCall(s[k], t[k])

\* the read a mutating handler calls once its request has resolved
RefreshOf(kind) ==
    CASE kind = "POST /genres" -> "GET /genres"
      [] kind = "POST /users" -> "GET /users/:id"
      [] kind = "PUT /users/:id" -> "GET /users/:id"
      [] kind = "POST /users/:id/wallet/transfer" -> "GET /users/:id/wallet"

\* the user clicks a Load button or submits a form: a user event that is neither
\* an edit of a field nor a tab click
Clicks ==
    /\ events' = events + 1
    /\ forms' = forms
    /\ activeTab' = activeTab

(* C17: no step cancels or drops a request in flight: a step that runs no
   continuation keeps them all, a continuation takes away only its own request
   and keeps the others; every invocation by the user adds its own request next
   to those already in flight, and every mutating handler whose request resolves
   issues its own follow-up read. *)
C17_NoDedupNoCancel ==
    [][/\ ~Continues =>
            /\ Kept(inflight, inflight')
            /\ Len(inflight') <= Len(inflight) + 1
       /\ Clicks =>
            /\ Len(inflight') = Len(inflight) + 1
            /\ inflight'[Len(inflight')].via = "user"
            /\ inflight'[Len(inflight')].stage = "sent"
       /\ Continues =>
            \E i \in DOMAIN inflight :
                /\ inflight[i].kind = done'.kind
                /\ inflight[i].uid = done'.uid
                /\ Kept(Remove(inflight, i), inflight')
       /\ ContinuesAs(WriteKinds, "resolved") =>
            /\ Added = 1
            /\ inflight'[Len(inflight')].kind = RefreshOf(done'.kind)
            /\ inflight'[Len(inflight')].stage = "sent"]_vars

\* the same transfer was submitted twice before the first had completed, each
\* completed on its own, and the follow-up read of each is in flight
C17_Witness ==
    \E j, k \in DOMAIN inflight :
        /\ j < k
        /\ inflight[j].kind = "GET /users/:id/wallet"
        /\ inflight[k].kind = "GET /users/:id/wallet"
        /\ inflight[j].via = "transferCredits"
        /\ inflight[k].via = "transferCredits"
        /\ inflight[j].parent = inflight[k].parent
        /\ inflight[j].uid = inflight[k].uid

(* C18: a user event that edits a form field leaves the three snapshots
   unchanged, and the continuation of a read handler, resolved or thrown,
   leaves every form field unchanged, whatever was typed while the read was in
   flight. *)
C18_FormsAndSnapshotsIndependent ==
    [][/\ (events' = events + 1 /\ forms' # forms) => snapshots' = snapshots
       /\ (Continues /\ done'.kind \in ReadKinds) => forms' = forms]_vars

C18_Witness ==
    /\ done.kind = "GET /users/:id/wallet"
    /\ done.outcome = "resolved"
    /\ done.status = "ok"
    /\ wallet = done.payload
    /\ transferAmount # <<>>

(* C19: a step that changes the Active Identifier changes nothing else of the
   page: the profile and wallet snapshots (and the genres) stay, no request is
   issued or completed, the other fields, the tab and the message stay. *)
C19_IdentifierChangeOnlyChangesIdentifier ==
    [][userId' # userId =>
          /\ snapshots' = snapshots
          /\ inflight' = inflight
          /\ ~Continues
          /\ <<genreId, genreName, genreListeners, username, email, subLevel,
               transferAmount>>' =
             <<genreId, genreName, genreListeners, username, email, subLevel,
               transferAmount>>
          /\ <<activeTab, message, timers>>' = <<activeTab, message, timers>>]_vars

\* the profile on display was loaded for the identifier that was replaced
C19_Witness ==
    /\ profile = KnownUser("user:7")
    /\ userId = DefaultUserId
    /\ activeTab = "users"
    /\ inflight = <<>>

(* C20: in every reachable state a non-empty message has at least one
   setTimeout callback still to run: a message is never left on display with
   nothing scheduled to clear it. *)
C20_MessageHasPendingTimer == message # "" => timers > 0

\* a second message was written after the callback of the first had run
C20_Witness ==
    /\ message # ""
    /\ timers = 1
    /\ done.kind \in WriteKinds
    /\ done.outcome = "resolved"
    /\ \E k \in DOMAIN inflight : inflight[k].via # "user"

====
